---- MODULE Spec2Model ----
(***************************************************************************)
(* hjcian/http-explained: a hand-written HTTP/1.x server.  One goroutine   *)
(* per accepted connection runs handleConn: it parses the request line,    *)
(* the header block and the Content-Length, calls handlerFn and writes the *)
(* rendered Response.  src/main.go holds two revisions of the program:     *)
(* lines 1-222 (handleConn closes the connection at its end) and lines     *)
(* 224-436 (handleConn defers the close).  Both are modelled; the field    *)
(* "rev" of a connection says which one serves it.                         *)
(*                                                                         *)
(* Byte strings are sequences of one-character strings.                    *)
(***************************************************************************)
EXTENDS Integers, Sequences, FiniteSets, TLC

VARIABLES
  conn,   \* the connection handleConn serves, and its peer
  api,    \* a Response under the calls of a handler, and its rendering
  lenv,   \* a header map under parseContentLength, and the body it bounds
  conns   \* the connections that concurrent handleConn goroutines serve

vars == <<conn, api, lenv, conns>>

(***************************************************************************)
(* Bounds of the model.                                                    *)
(***************************************************************************)
\* the longest header block of an input request, in lines
MaxHeaderLines == 2
\* the most WriteHeader calls, and the most WriteData calls, on one Response
MaxHeaderWrites == 2
MaxDataWrites == 2
\* the longest Content-Length value drawn from the alphabet, in bytes
MaxValueLen == 3

(***************************************************************************)
(* Byte-string helpers (Go's strings package on single-byte separators).   *)
(***************************************************************************)
SP == " "
LF == "\n"
CR == "\r"
TAB == "\t"
COLON == ":"

\* unicode.IsSpace restricted to the ASCII bytes the inputs use
IsSpace(ch) == ch \in {SP, LF, CR, TAB}

\* The operators on byte strings are written in two steps, the second
\* applied to the one element t of {s}: the string is then evaluated once,
\* and not again at every place the operator's body names it.

IndexIn(t, ch) ==
  IF \E i \in 1..Len(t) : t[i] = ch
  THEN CHOOSE i \in 1..Len(t) : t[i] = ch /\ \A j \in 1..(i - 1) : t[j] # ch
  ELSE 0

\* strings.Index(s, ch) + 1; 0 when ch does not occur
Index(s, ch) == CHOOSE r \in {IndexIn(t, ch) : t \in {s}} : TRUE

\* strings.Cut(s, sep) for a one-byte separator
Cut(s, ch) ==
  LET i == Index(s, ch)
  IN  IF i = 0
      THEN [before |-> s, after |-> <<>>, found |-> FALSE]
      ELSE [before |-> SubSeq(s, 1, i - 1),
            after  |-> SubSeq(s, i + 1, Len(s)),
            found  |-> TRUE]

\* t without the bytes of cutset at its two ends
Trim(t, cutset) ==
  IF \A i \in 1..Len(t) : t[i] \in cutset THEN <<>>
  ELSE LET lo == CHOOSE i \in 1..Len(t) :
                   t[i] \notin cutset /\ \A j \in 1..(i - 1) : t[j] \in cutset
           hi == CHOOSE i \in 1..Len(t) :
                   t[i] \notin cutset /\ \A j \in (i + 1)..Len(t) : t[j] \in cutset
       IN  SubSeq(t, lo, hi)

\* strings.TrimSpace
TrimSpace(s) ==
  CHOOSE r \in {Trim(t, {t[i] : i \in {j \in 1..Len(t) : IsSpace(t[j])}}) : t \in {s}} : TRUE

\* textproto's isASCIISpace: space and tab
IsASCIISpace(ch) == ch \in {SP, TAB}

\* textproto.TrimString
TrimString(s) ==
  CHOOSE r \in {Trim(t, {t[i] : i \in {j \in 1..Len(t) : IsASCIISpace(t[j])}}) : t \in {s}} : TRUE

RECURSIVE Concat(_)
\* the concatenation of a sequence of byte strings
Concat(ss) == IF ss = <<>> THEN <<>> ELSE Head(ss) \o Concat(Tail(ss))

RECURSIVE Join(_, _)
\* strings.Join(ss, sep)
Join(ss, sep) ==
  IF ss = <<>> THEN <<>>
  ELSE IF Len(ss) = 1 THEN ss[1]
  ELSE ss[1] \o sep \o Join(Tail(ss), sep)

Digits == <<"0", "1", "2", "3", "4", "5", "6", "7", "8", "9">>

RECURSIVE Itoa(_)
\* fmt's %v of a non-negative int: its decimal numeral
Itoa(n) == IF n < 10 THEN <<Digits[n + 1]>> ELSE Itoa(n \div 10) \o <<Digits[(n % 10) + 1]>>

IsPrefix(p, s) == Len(p) <= Len(s) /\ SubSeq(s, 1, Len(p)) = p


(***************************************************************************)
(* Errors.  An error value is a record: its kind and the text it reports.  *)
(***************************************************************************)
Err(kind, arg) == [kind |-> kind, arg |-> arg]
nil == Err("nil", <<>>)
\* io.EOF
EOF == Err("EOF", <<>>)
\* errors.New("invalid request line")
ErrInvalidRequestLine == Err("invalid request line", <<>>)
\* fmt.Errorf("invalid header: %s", kv)
ErrInvalidHeader(kv) == Err("invalid header", kv)
\* fmt.Errorf("bad Content-Length: %s", cl)
ErrBadContentLength(cl) == Err("bad Content-Length", cl)

(***************************************************************************)
(* The buffered reader over the connection.  Of the bytes the peer sends   *)
(* (wire), the first "arrived" have reached the socket, the first "filled" *)
(* have been moved into the bufio.Reader and the first "cons" have been    *)
(* handed to the program.  peer is "open", or the way the peer's side      *)
(* ended: "EOF", or "read" for a failing Read.                             *)
(***************************************************************************)
Buffered(c) == c.filled - c.cons

\* bufio.Reader.ReadString('\n'): the outcomes of one call; none while the
\* call blocks.  A fill takes every byte that has arrived.
ReadString(c) ==
  LET unread == SubSeq(c.wire, c.cons + 1, c.arrived)
      i == Index(unread, LF)
  IN  IF i > 0
      THEN {[line |-> SubSeq(unread, 1, i), err |-> nil,
             cons |-> c.cons + i,
             filled |-> IF c.filled >= c.cons + i THEN c.filled ELSE c.arrived]}
      ELSE IF c.peer # "open"
      THEN {[line |-> unread, err |-> Err(c.peer, <<>>),
             cons |-> c.arrived, filled |-> c.arrived]}
      ELSE {}

\* parseRequestLine that fails only when both separators are missing
parseRequestLineBothMissing(rd) ==
  IF rd.err # nil
  THEN [method |-> <<>>, requestURI |-> <<>>, proto |-> <<>>, err |-> rd.err]
  ELSE LET c1 == Cut(rd.line, SP)
           c2 == Cut(c1.after, SP)
       IN  IF ~c1.found /\ ~c2.found
           THEN [method |-> <<>>, requestURI |-> <<>>, proto |-> <<>>,
                 err |-> ErrInvalidRequestLine]
           ELSE [method |-> c1.before, requestURI |-> c2.before,
                 proto |-> c2.after, err |-> nil]

(***************************************************************************)
(* parseRequestLine, given the outcome rd of its ReadString.               *)
(***************************************************************************)
parseRequestLine(rd) ==
  IF rd.err # nil
  THEN [method |-> <<>>, requestURI |-> <<>>, proto |-> <<>>, err |-> rd.err]
  ELSE LET c1 == Cut(rd.line, SP)
           c2 == Cut(c1.after, SP)
       IN  IF ~c1.found \/ ~c2.found
           THEN [method |-> <<>>, requestURI |-> <<>>, proto |-> <<>>,
                 err |-> ErrInvalidRequestLine]
           ELSE [method |-> c1.before, requestURI |-> c2.before,
                 proto |-> c2.after, err |-> nil]

(***************************************************************************)
(* Header maps: functions from names to non-empty sequences of values.     *)
(***************************************************************************)
\* make(http.Header), and the nil map
EmptyHeader == <<>>

\* h[k] = append(h[k], v)
HeaderAppend(h, k, v) ==
  [x \in (DOMAIN h) \cup {k} |->
     IF x = k
     THEN (IF k \in DOMAIN h THEN Append(h[k], v) ELSE <<v>>)
     ELSE h[x]]

Uppers == <<"A","B","C","D","E","F","G","H","I","J","K","L","M",
            "N","O","P","Q","R","S","T","U","V","W","X","Y","Z">>
Lowers == <<"a","b","c","d","e","f","g","h","i","j","k","l","m",
            "n","o","p","q","r","s","t","u","v","w","x","y","z">>

\* strings.ToLower on ASCII
ToLower(s) == [i \in 1..Len(s) |-> IF Index(Uppers, s[i]) > 0 THEN Lowers[Index(Uppers, s[i])]
                                   ELSE s[i]]

\* parseMIMEHeader that stores every name in lower case
parseMIMEHeaderFolded(rd, header) ==
  IF rd.err # nil
  THEN [header |-> header, err |-> rd.err, done |-> TRUE]
  ELSE LET kv == TrimSpace(rd.line)
       IN  IF Len(kv) = 0
           THEN [header |-> header, err |-> nil, done |-> TRUE]
           ELSE LET c == Cut(kv, COLON)
                IN  IF ~c.found
                    THEN [header |-> header, err |-> ErrInvalidHeader(kv), done |-> TRUE]
                    ELSE [header |-> HeaderAppend(header, ToLower(TrimSpace(c.before)),
                                                  TrimSpace(c.after)),
                          err |-> nil, done |-> FALSE]

\* parseMIMEHeader that takes a failed read for the end of the header block
parseMIMEHeaderReadEnds(rd, header) ==
  IF rd.err # nil
  THEN [header |-> header, err |-> nil, done |-> TRUE]
  ELSE LET kv == TrimSpace(rd.line)
       IN  IF Len(kv) = 0
           THEN [header |-> header, err |-> nil, done |-> TRUE]
           ELSE LET c == Cut(kv, COLON)
                IN  IF ~c.found
                    THEN [header |-> header, err |-> ErrInvalidHeader(kv), done |-> TRUE]
                    ELSE [header |-> HeaderAppend(header, TrimSpace(c.before),
                                                  TrimSpace(c.after)),
                          err |-> nil, done |-> FALSE]

\* parseMIMEHeader that reads on after a failed read
parseMIMEHeaderRetry(rd, header) ==
  IF rd.err # nil
  THEN [header |-> header, err |-> nil, done |-> FALSE]
  ELSE LET kv == TrimSpace(rd.line)
       IN  IF Len(kv) = 0
           THEN [header |-> header, err |-> nil, done |-> TRUE]
           ELSE LET c == Cut(kv, COLON)
                IN  IF ~c.found
                    THEN [header |-> header, err |-> ErrInvalidHeader(kv), done |-> TRUE]
                    ELSE [header |-> HeaderAppend(header, TrimSpace(c.before),
                                                  TrimSpace(c.after)),
                          err |-> nil, done |-> FALSE]

\* parseMIMEHeader that skips a line without a colon
parseMIMEHeaderSkip(rd, header) ==
  IF rd.err # nil
  THEN [header |-> header, err |-> rd.err, done |-> TRUE]
  ELSE LET kv == TrimSpace(rd.line)
       IN  IF Len(kv) = 0
           THEN [header |-> header, err |-> nil, done |-> TRUE]
           ELSE LET c == Cut(kv, COLON)
                IN  IF ~c.found
                    THEN [header |-> header, err |-> nil, done |-> FALSE]
                    ELSE [header |-> HeaderAppend(header, TrimSpace(c.before),
                                                  TrimSpace(c.after)),
                          err |-> nil, done |-> FALSE]

\* one turn of parseMIMEHeader's loop, given the outcome rd of its
\* ReadString and the map built so far: done says that the function returns
parseMIMEHeader(rd, header) ==
  IF rd.err # nil
  THEN [header |-> header, err |-> rd.err, done |-> TRUE]
  ELSE LET kv == TrimSpace(rd.line)
       IN  IF Len(kv) = 0
           THEN [header |-> header, err |-> nil, done |-> TRUE]
           ELSE LET c == Cut(kv, COLON)
                IN  IF ~c.found
                    THEN [header |-> header, err |-> ErrInvalidHeader(kv), done |-> TRUE]
                    ELSE [header |-> HeaderAppend(header, TrimSpace(c.before),
                                                  TrimSpace(c.after)),
                          err |-> nil, done |-> FALSE]

(***************************************************************************)
(* parseContentLength.                                                     *)
(***************************************************************************)
HdrContentLength == <<"C","o","n","t","e","n","t","-","L","e","n","g","t","h">>
HdrLowerContentLength == <<"c","o","n","t","e","n","t","-","l","e","n","g","t","h">>

\* http.Header.Get for a name that is already in canonical form
Get(h, key) == IF key \in DOMAIN h /\ Len(h[key]) > 0 THEN h[key][1] ELSE <<>>

IsDigit(ch) == \E i \in 1..10 : Digits[i] = ch
DigitVal(ch) == Index(Digits, ch) - 1

RECURSIVE Atoi(_)
Atoi(s) == IF s = <<>> THEN 0 ELSE Atoi(SubSeq(s, 1, Len(s) - 1)) * 10 + DigitVal(s[Len(s)])

RECURSIVE StripZeros(_)
StripZeros(s) == IF Len(s) > 1 /\ s[1] = "0" THEN StripZeros(Tail(s)) ELSE s

\* 1<<63 - 1, the largest value ParseUint(s, 10, 63) accepts
MaxInt63 == <<"9","2","2","3","3","7","2","0","3","6","8","5","4","7","7","5","8","0","7">>

RECURSIVE NumeralLeq(_, _)
\* a <= b for numerals of equal length
NumeralLeq(a, b) ==
  IF a = <<>> THEN TRUE
  ELSE IF DigitVal(a[1]) < DigitVal(b[1]) THEN TRUE
  ELSE IF DigitVal(a[1]) > DigitVal(b[1]) THEN FALSE
  ELSE NumeralLeq(Tail(a), Tail(b))

\* the model's stand-in for every length of ten digits or more: integers of
\* the model checker are narrower than int64
HugeLength == 1000000000

\* 1<<64 - 1
MaxUint64 == <<"1","8","4","4","6","7","4","4","0","7","3","7","0","9","5","5","1","6","1","5">>

\* strconv.ParseUint(s, 10, 64): the numerals up to 1<<64 - 1
ParseUintBits64(s) ==
  IF s = <<>> \/ \E i \in 1..Len(s) : ~IsDigit(s[i])
  THEN [n |-> 0, ok |-> FALSE]
  ELSE LET z == StripZeros(s)
       IN  IF Len(z) > Len(MaxUint64) \/ (Len(z) = Len(MaxUint64) /\ ~NumeralLeq(z, MaxUint64))
           THEN [n |-> 0, ok |-> FALSE]
           ELSE [n |-> IF Len(z) <= 9 THEN Atoi(z) ELSE HugeLength, ok |-> TRUE]

\* strconv.ParseUint(s, 10, 63)
ParseUint(s) ==
  IF s = <<>> \/ \E i \in 1..Len(s) : ~IsDigit(s[i])
  THEN [n |-> 0, ok |-> FALSE]
  ELSE LET z == StripZeros(s)
       IN  IF Len(z) > Len(MaxInt63) \/ (Len(z) = Len(MaxInt63) /\ ~NumeralLeq(z, MaxInt63))
           THEN [n |-> 0, ok |-> FALSE]
           ELSE [n |-> IF Len(z) <= 9 THEN Atoi(z) ELSE HugeLength, ok |-> TRUE]

\* parseContentLength that finds the name in any casing
parseContentLengthAnyCase(h) ==
  LET cl0 == Get(h, HdrContentLength)
      ks == {k \in DOMAIN h : ToLower(k) = HdrLowerContentLength /\ Len(h[k]) > 0}
      cl1 == IF Len(cl0) = 0 /\ ks # {} THEN h[CHOOSE k \in ks : TRUE][1] ELSE cl0
      cl == TrimString(cl1)
  IN  IF cl = <<>>
      THEN [n |-> -1, err |-> nil]
      ELSE LET u == ParseUint(cl)
           IN  IF ~u.ok THEN [n |-> 0, err |-> ErrBadContentLength(cl)]
               ELSE [n |-> u.n, err |-> nil]

parseContentLength(h) ==
  LET cl0 == Get(h, HdrContentLength)
      cl1 == IF Len(cl0) = 0
             THEN (IF HdrLowerContentLength \in DOMAIN h /\ Len(h[HdrLowerContentLength]) > 0
                   THEN h[HdrLowerContentLength][1] ELSE cl0)
             ELSE cl0
      cl == TrimString(cl1)
  IN  IF cl = <<>>
      THEN [n |-> -1, err |-> nil]
      ELSE LET u == ParseUint(cl)
           IN  IF ~u.ok THEN [n |-> 0, err |-> ErrBadContentLength(cl)]
               ELSE [n |-> u.n, err |-> nil]

(***************************************************************************)
(* Response and its methods.                                               *)
(***************************************************************************)
\* Response{}
ZeroResponse == [status |-> 0, header |-> EmptyHeader, data |-> <<>>]

\* WriteStatus that takes 100 for too small a code
WriteStatusAbove100(r, code) ==
  IF code <= 100 \/ code > 999
  THEN [r |-> r, panic |-> TRUE]
  ELSE [r |-> [r EXCEPT !.status = code], panic |-> FALSE]

WriteStatus(r, code) ==
  IF code < 100 \/ code > 999
  THEN [r |-> r, panic |-> TRUE]
  ELSE [r |-> [r EXCEPT !.status = code], panic |-> FALSE]

WriteData(r, data) == [r EXCEPT !.data = @ \o data]

WriteHeader(r, field, value) == [r EXCEPT !.header = HeaderAppend(@, field, value)]

\* the orders in which a range over the map h may visit its keys
KeyOrders(h) ==
  {f \in [1..Cardinality(DOMAIN h) -> DOMAIN h] :
     \A i, j \in 1..Cardinality(DOMAIN h) : f[i] = f[j] => i = j}

HTTP11 == <<"H","T","T","P","/","1",".","1">>
OK == <<"O","K">>

\* fmt.Sprintf("%s: %s", k, vv)
HeaderLine(k, vv) == k \o <<COLON, SP>> \o vv

\* the header lines respond builds when its range visits the keys in order ks
HeaderLinesIn(r, ks) ==
  Concat([i \in 1..Len(ks) |->
            [j \in 1..Len(r.header[ks[i]]) |-> HeaderLine(ks[i], r.header[ks[i]][j])]])

\* respond that puts its Content-Length line before the handler's headers
respondLengthFirst(r) ==
  {LET statusLine == HTTP11 \o <<SP>> \o Itoa(r.status) \o <<SP>> \o OK
       headers == <<HeaderLine(HdrContentLength, Itoa(Len(r.data)))>>
                  \o HeaderLinesIn(r, ks)
   IN  statusLine \o <<LF>> \o Join(headers, <<LF>>) \o <<LF>> \o <<LF>> \o r.data
   : ks \in KeyOrders(r.header)}

\* Response.respond: the byte strings it may return (Go leaves the order of
\* a range over a map open)
respond(r) ==
  {LET statusLine == HTTP11 \o <<SP>> \o Itoa(r.status) \o <<SP>> \o OK
       headers == Append(HeaderLinesIn(r, ks),
                         HeaderLine(HdrContentLength, Itoa(Len(r.data))))
   IN  statusLine \o <<LF>> \o Join(headers, <<LF>>) \o <<LF>> \o <<LF>> \o r.data
   : ks \in KeyOrders(r.header)}


(***************************************************************************)
(* handlerFn.  Its ReadAll of the body is a loop of Read calls on          *)
(* io.LimitReader(r, contentLength); the rest of it runs without blocking. *)
(***************************************************************************)
ContentType == <<"C","o","n","t","e","n","t","-","T","y","p","e">>
TextPlain == <<"t","e","x","t","/","p","l","a","i","n">>
HelloWorld == <<"h","e","l","l","o"," ","w","o","r","l","d">>

\* the three writes that end handlerFn, on the Response resp
handlerFn(resp) ==
  LET s == WriteStatus(resp, 200)
  IN  [r |-> IF s.panic THEN s.r
             ELSE WriteData(WriteHeader(s.r, ContentType, TextPlain), HelloWorld),
       panic |-> s.panic]

Min(a, b) == IF a < b THEN a ELSE b

\* a Read that hands out all it has, whatever the limit
LimitedReadAll(c, n) ==
  IF n <= 0
  THEN {[data |-> <<>>, err |-> EOF, cons |-> c.cons, filled |-> c.filled]}
  ELSE IF c.arrived > c.cons
  THEN {[data |-> SubSeq(c.wire, c.cons + 1, c.arrived), err |-> nil,
         cons |-> c.arrived, filled |-> c.arrived]}
  ELSE IF c.peer # "open"
  THEN {[data |-> <<>>, err |-> Err(c.peer, <<>>), cons |-> c.cons, filled |-> c.filled]}
  ELSE {}

\* a Read that takes a negative limit for no limit
LimitedReadNegative(c, n) ==
  IF n = 0
  THEN {[data |-> <<>>, err |-> EOF, cons |-> c.cons, filled |-> c.filled]}
  ELSE IF c.arrived > c.cons
  THEN {[data |-> SubSeq(c.wire, c.cons + 1,
                         c.cons + (IF n < 0 THEN c.arrived - c.cons
                                   ELSE Min(n, c.arrived - c.cons))),
         err |-> nil,
         cons |-> c.cons + (IF n < 0 THEN c.arrived - c.cons
                            ELSE Min(n, c.arrived - c.cons)),
         filled |-> c.arrived]}
  ELSE IF c.peer # "open"
  THEN {[data |-> <<>>, err |-> Err(c.peer, <<>>), cons |-> c.cons, filled |-> c.filled]}
  ELSE {}

\* one Read of the io.LimitedReader with n bytes left over the reader of c:
\* the outcomes of the call, none while it blocks
LimitedRead(c, n) ==
  IF n <= 0
  THEN {[data |-> <<>>, err |-> EOF, cons |-> c.cons, filled |-> c.filled]}
  ELSE IF Buffered(c) > 0
  THEN {[data |-> SubSeq(c.wire, c.cons + 1, c.cons + Min(n, Buffered(c))), err |-> nil,
         cons |-> c.cons + Min(n, Buffered(c)), filled |-> c.filled]}
  ELSE IF c.arrived > c.filled
  THEN {[data |-> SubSeq(c.wire, c.cons + 1, c.cons + Min(n, c.arrived - c.cons)),
         err |-> nil,
         cons |-> c.cons + Min(n, c.arrived - c.cons), filled |-> c.arrived]}
  ELSE IF c.peer # "open"
  THEN {[data |-> <<>>, err |-> Err(c.peer, <<>>), cons |-> c.cons, filled |-> c.filled]}
  ELSE {}

(***************************************************************************)
(* The requests of the model.                                              *)
(***************************************************************************)
S3(a, b, c) == a \o <<SP>> \o b \o <<SP>> \o c

GET == <<"G","E","T">>
Target == <<"/","a">>
HTTP10 == <<"H","T","T","P","/","1",".","0">>

\* request lines without their terminator; wf: of the form <m> <t> <p>
RequestLines ==
  { [text |-> S3(GET, Target, HTTP10), wf |-> TRUE, m |-> GET, t |-> Target, p |-> HTTP10],
    [text |-> S3(GET, Target, HTTP10 \o <<SP, "x">>), wf |-> TRUE,
     m |-> GET, t |-> Target, p |-> HTTP10 \o <<SP, "x">>],
    [text |-> GET \o <<SP>> \o Target, wf |-> FALSE, m |-> <<>>, t |-> <<>>, p |-> <<>>],
    [text |-> GET, wf |-> FALSE, m |-> <<>>, t |-> <<>>, p |-> <<>>] }

\* the line "<name>: <value>"
KV(name, value) ==
  [text |-> name \o <<COLON, SP>> \o value, wf |-> TRUE, name |-> name, value |-> value]

\* header lines without their terminator; wf: of the form <name>: <value>
HeaderLines ==
  { [text |-> <<"a", COLON, SP, "1", CR>>, wf |-> TRUE, name |-> <<"a">>, value |-> <<"1">>],
    KV(<<"A">>, <<"2">>),
    KV(<<"a">>, <<"x", COLON, "y">>),
    KV(HdrContentLength, <<"2">>),
    KV(HdrLowerContentLength, <<"1">>),
    KV(HdrContentLength, <<"x">>),
    KV(HdrContentLength, <<>>),
    [text |-> <<"b","a","d",CR>>, wf |-> FALSE, name |-> <<>>, value |-> <<>>] }

HeaderBlocks == UNION {[1..n -> HeaderLines] : n \in 0..MaxHeaderLines}

Bodies == {<<>>, <<"x","y","z">>}

\* the bytes of a request
Wire(in) ==
  in.rl.text \o <<LF>> \o
  Concat([i \in 1..Len(in.hs) |-> in.hs[i].text \o <<LF>>]) \o <<LF>> \o in.body

PlainLine == CHOOSE rl \in RequestLines : rl.wf /\ rl.p = HTTP10

\* every header block and body after the plain request line, and the other
\* request lines before an empty header block
Inputs ==
  {[rl |-> PlainLine, hs |-> hs, body |-> b] : hs \in HeaderBlocks, b \in Bodies}
  \cup {[rl |-> rl, hs |-> <<>>, body |-> <<>>] : rl \in RequestLines}

\* the two revisions of handleConn in src/main.go
Revisions == {"close at end", "deferred close"}


(***************************************************************************)
(* One connection: the state of handleConn(conn) and of its peer.          *)
(*   pc       where handleConn stands; "done" once it has returned         *)
(*   failed   the message of the errorLog call that reported err           *)
(*   length   the result of parseContentLength, n what the LimitedReader   *)
(*            may still hand out                                           *)
(*   reads    the number of Read calls handlerFn's ReadAll has made        *)
(*   body     what handlerFn's ReadAll has read, bodyErr its error         *)
(*   out      the bytes respond returned, written those conn.Write wrote   *)
(*   closes   the number of conn.Close calls                               *)
(*   events   the calls made so far, in order                              *)
(*   bodyClosed  the number of req.Body.Close() calls that have returned,  *)
(*            closeErr the error of the last, closeArrived the bytes that  *)
(*            had arrived when it returned                                 *)
(***************************************************************************)
NewConn(rev, in) ==
  [rev |-> rev, input |-> in, wire |-> Wire(in),
   arrived |-> 0, peer |-> "open", filled |-> 0, cons |-> 0,
   pc |-> "parseRequestLine", failed |-> "", err |-> nil,
   method |-> <<>>, requestURI |-> <<>>, proto |-> <<>>, header |-> EmptyHeader,
   length |-> 0, n |-> 0, reads |-> 0, body |-> <<>>, bodyErr |-> nil,
   resp |-> ZeroResponse, out |-> <<>>, written |-> <<>>, writeErr |-> nil,
   closes |-> 0, events |-> <<>>,
   bodyClosed |-> 0, closeErr |-> nil, closeArrived |-> 0]

\* the peer's next packet arrives: the bytes up to the next line terminator,
\* or one byte when none is left
peerSend(c) ==
  IF c.pc # "done" /\ c.peer = "open" /\ c.arrived < Len(c.wire)
  THEN LET i == Index(SubSeq(c.wire, c.arrived + 1, Len(c.wire)), LF)
       IN  {[c EXCEPT !.arrived = IF i > 0 THEN @ + i ELSE @ + 1]}
  ELSE {}

\* the peer's side of the stream ends: it closes (EOF) or a Read fails
peerEnd(c) ==
  IF c.pc # "done" /\ c.peer = "open"
  THEN {[c EXCEPT !.peer = k] : k \in {"EOF", "read"}}
  ELSE {}

\* the peer sends its next line without the terminator and closes
peerCut(c) ==
  IF c.pc # "done" /\ c.peer = "open"
  THEN LET i == Index(SubSeq(c.wire, c.arrived + 1, Len(c.wire)), LF)
       IN  IF i > 1 THEN {[c EXCEPT !.arrived = @ + i - 1, !.peer = "EOF"]} ELSE {}
  ELSE {}

\* errorLog(msg, err); return -- with the deferred conn.Close() of the
\* second revision
returnError(c, msg, err) ==
  IF c.rev = "deferred close"
  THEN [c EXCEPT !.failed = msg, !.err = err, !.pc = "done",
                 !.closes = @ + 1, !.events = Append(@, "Close")]
  ELSE [c EXCEPT !.failed = msg, !.err = err, !.pc = "done"]

\* handleConn up to the return of parseRequestLine
handleConnRequestLine(c) ==
  IF c.pc # "parseRequestLine" THEN {}
  ELSE {LET p == parseRequestLine(rd)
            c1 == [c EXCEPT !.cons = rd.cons, !.filled = rd.filled]
        IN  IF p.err # nil
            THEN returnError(c1, "parse request line", p.err)
            ELSE [c1 EXCEPT !.method = p.method, !.requestURI = p.requestURI,
                            !.proto = p.proto, !.pc = "parseMIMEHeader",
                            !.events = Append(@, "parseRequestLine")]
        : rd \in ReadString(c)}

\* handleConn that logs a failure of parseMIMEHeader and goes on
handleConnHeaderNoReturn(c) ==
  IF c.pc # "parseMIMEHeader" THEN {}
  ELSE {LET p == parseMIMEHeader(rd, c.header)
            c1 == [c EXCEPT !.cons = rd.cons, !.filled = rd.filled, !.header = p.header]
        IN  IF ~p.done THEN c1
            ELSE IF p.err # nil
            THEN [c1 EXCEPT !.failed = "parse MIME header", !.err = p.err,
                            !.pc = "parseContentLength",
                            !.events = Append(@, "parseMIMEHeader")]
            ELSE [c1 EXCEPT !.pc = "parseContentLength",
                            !.events = Append(@, "parseMIMEHeader")]
        : rd \in ReadString(c)}

\* one turn of the loop of parseMIMEHeader, and handleConn's check of its
\* result when it returns
handleConnHeader(c) ==
  IF c.pc # "parseMIMEHeader" THEN {}
  ELSE {LET p == parseMIMEHeader(rd, c.header)
            c1 == [c EXCEPT !.cons = rd.cons, !.filled = rd.filled, !.header = p.header]
        IN  IF ~p.done THEN c1
            ELSE IF p.err # nil
            THEN returnError(c1, "parse MIME header", p.err)
            ELSE [c1 EXCEPT !.pc = "parseContentLength",
                            !.events = Append(@, "parseMIMEHeader")]
        : rd \in ReadString(c)}

\* handleConn that calls handlerFn before it checks the Content-Length
handleConnContentLengthLate(c) ==
  IF c.pc # "parseContentLength" THEN {}
  ELSE LET p == parseContentLength(c.header)
       IN  {[c EXCEPT !.length = p.n, !.n = p.n, !.resp = ZeroResponse,
                      !.pc = "handlerFn",
                      !.events = @ \o <<"handlerFn", "parseContentLength">>]}

\* parseContentLength, the Request with its bounded body, Response{} and the
\* call of handlerFn
handleConnContentLength(c) ==
  IF c.pc # "parseContentLength" THEN {}
  ELSE LET p == parseContentLength(c.header)
       IN  IF p.err # nil
           THEN {returnError(c, "parse Content-Length", p.err)}
           ELSE {[c EXCEPT !.length = p.n, !.n = p.n, !.resp = ZeroResponse,
                           !.pc = "handlerFn",
                           !.events = @ \o <<"parseContentLength", "handlerFn">>]}

\* handlerFn: one Read of ioutil.ReadAll(req.Body); when that ends the
\* loop, the rest of handlerFn up to its return
handleConnHandler(c) ==
  IF c.pc # "handlerFn" THEN {}
  ELSE {LET c1 == [c EXCEPT !.cons = rd.cons, !.filled = rd.filled,
                            !.reads = @ + 1,
                            !.body = @ \o rd.data, !.n = @ - Len(rd.data)]
        IN  IF rd.err = nil THEN c1
            ELSE LET h == handlerFn(c1.resp)
                 IN  [c1 EXCEPT !.bodyErr = IF rd.err = EOF THEN nil ELSE rd.err,
                                !.resp = h.r,
                                !.pc = IF h.panic THEN "panic" ELSE "respond",
                                !.events = Append(@, "handlerFn returns")]
        : rd \in LimitedRead(c, c.n)}

\* resp.respond()
handleConnRespond(c) ==
  IF c.pc # "respond" THEN {}
  ELSE {[c EXCEPT !.out = o, !.pc = "Write", !.events = Append(@, "respond")]
        : o \in respond(c.resp)}

\* a failing Write writes nothing or all but the last byte
PartialWrites(o) == {0, Len(o) - 1}

ErrWrite == Err("write", <<>>)

\* conn.Write(out), then conn.Close(): called at the end of the first
\* revision, deferred in the second
handleConnWrite(c) ==
  IF c.pc # "Write" THEN {}
  ELSE {[c EXCEPT !.written = c.out, !.pc = "done", !.closes = @ + 1,
                  !.events = @ \o <<"Write", "Close">>]}
       \cup
       {[c EXCEPT !.written = SubSeq(c.out, 1, k), !.writeErr = ErrWrite,
                  !.failed = "write response", !.err = ErrWrite,
                  !.pc = "done", !.closes = @ + 1,
                  !.events = @ \o <<"Write", "Close">>]
        : k \in PartialWrites(c.out)}

(***************************************************************************)
(* Spec: one connection, served by either revision.                        *)
(***************************************************************************)
(***************************************************************************)
(* The header maps parseContentLength is applied to on its own.  A map is  *)
(* built from its (name, value) pairs; core is the value between its       *)
(* padding when the map has the one name Content-Length.                   *)
(***************************************************************************)
RECURSIVE HeaderOf(_)
HeaderOf(pairs) ==
  IF pairs = <<>> THEN EmptyHeader
  ELSE HeaderAppend(HeaderOf(SubSeq(pairs, 1, Len(pairs) - 1)),
                    pairs[Len(pairs)][1], pairs[Len(pairs)][2])

\* no header map yet
NewCl == [kind |-> "", pairs |-> <<>>, core |-> <<>>, h |-> EmptyHeader,
          stage |-> "parse", n |-> 0, err |-> nil, data |-> <<>>, rerr |-> nil]

\* no connection served concurrently
NoConns == <<>>

\* the Response no handler has touched
\* op and code: the last call made and the code of the last WriteStatus
NewApi == [resp |-> ZeroResponse, calls |-> <<>>, writes |-> 0, panics |-> 0,
           rendered |-> FALSE, out |-> <<>>, op |-> "", code |-> 0]

Init ==
  /\ conn \in {NewConn(rev, in) : rev \in Revisions, in \in Inputs}
  /\ api = NewApi
  /\ lenv = NewCl
  /\ conns = NoConns

PeerSend == conn' \in peerSend(conn) /\ UNCHANGED <<api, lenv, conns>>
PeerEnd == conn' \in peerEnd(conn) /\ UNCHANGED <<api, lenv, conns>>
PeerCut == conn' \in peerCut(conn) /\ UNCHANGED <<api, lenv, conns>>
HandleConnRequestLine == conn' \in handleConnRequestLine(conn) /\ UNCHANGED <<api, lenv, conns>>
HandleConnHeader == conn' \in handleConnHeader(conn) /\ UNCHANGED <<api, lenv, conns>>
HandleConnContentLength == conn' \in handleConnContentLength(conn) /\ UNCHANGED <<api, lenv, conns>>
HandleConnHandler == conn' \in handleConnHandler(conn) /\ UNCHANGED <<api, lenv, conns>>
HandleConnRespond == conn' \in handleConnRespond(conn) /\ UNCHANGED <<api, lenv, conns>>
HandleConnWrite == conn' \in handleConnWrite(conn) /\ UNCHANGED <<api, lenv, conns>>

Next ==
  \/ PeerSend
  \/ PeerEnd
  \/ PeerCut
  \/ HandleConnRequestLine
  \/ HandleConnHeader
  \/ HandleConnContentLength
  \/ HandleConnHandler
  \/ HandleConnRespond
  \/ HandleConnWrite

Spec == Init /\ [][Next]_vars


(***************************************************************************)
(* SpecResponse: one Response under the calls a handler may make, in any   *)
(* order, and then respond.  calls lists the WriteHeader calls made.       *)
(***************************************************************************)
StatusCodes == {42, 100, 200, 999, 1000}
Fields == {ContentType, HdrContentLength, <<"X">>}
Values == {TextPlain, <<"7">>}
Chunks == {HelloWorld, <<"!">>}

InitResponse ==
  /\ conn = NewConn("deferred close", [rl |-> PlainLine, hs |-> <<>>, body |-> <<>>])
  /\ api = NewApi
  /\ lenv = NewCl
  /\ conns = NoConns

ApiWriteStatus ==
  /\ ~api.rendered /\ api.panics = 0
  /\ \E code \in StatusCodes :
       LET w == WriteStatus(api.resp, code)
       IN  api' = [api EXCEPT !.resp = w.r, !.panics = IF w.panic THEN 1 ELSE @,
                              !.op = "WriteStatus", !.code = code]
  /\ UNCHANGED <<conn, lenv, conns>>

ApiWriteHeader ==
  /\ ~api.rendered /\ api.panics = 0
  /\ Len(api.calls) < MaxHeaderWrites
  /\ \E field \in Fields, value \in Values :
       api' = [api EXCEPT !.resp = WriteHeader(@, field, value),
                          !.calls = Append(@, <<field, value>>),
                          !.op = "WriteHeader"]
  /\ UNCHANGED <<conn, lenv, conns>>

ApiWriteData ==
  /\ ~api.rendered /\ api.panics = 0
  /\ api.writes < MaxDataWrites
  /\ \E data \in Chunks :
       api' = [api EXCEPT !.resp = WriteData(@, data), !.writes = @ + 1,
                          !.op = "WriteData"]
  /\ UNCHANGED <<conn, lenv, conns>>

ApiRespond ==
  /\ ~api.rendered /\ api.panics = 0
  /\ \E o \in respond(api.resp) :
       api' = [api EXCEPT !.rendered = TRUE, !.out = o, !.op = "respond"]
  /\ UNCHANGED <<conn, lenv, conns>>

NextResponse ==
  \/ ApiWriteStatus
  \/ ApiWriteHeader
  \/ ApiWriteData
  \/ ApiRespond

SpecResponse == InitResponse /\ [][NextResponse]_vars

(***************************************************************************)
(* SpecLength: parseContentLength on a header map, then one Read of the    *)
(* body io.LimitReader(r, n) makes of its result, over a reader that has   *)
(* bytes buffered.                                                         *)
(***************************************************************************)
ValueAlphabet == {"0", "1", "9", "-", "+", "a"}

ShortValues == UNION {[1..k -> ValueAlphabet] : k \in 0..MaxValueLen}

\* numerals of ten digits or more; fits: not above 1<<63 - 1
LongNumerals ==
  { [text |-> <<"1","0","0","0","0","0","0","0","0","0">>, fits |-> TRUE],
    [text |-> MaxInt63, fits |-> TRUE],
    [text |-> <<"0","0","0">> \o MaxInt63, fits |-> TRUE],
    [text |-> <<"9","2","2","3","3","7","2","0","3","6","8","5","4","7","7","5","8","0","8">>,
     fits |-> FALSE],
    [text |-> <<"9","3","0","0","0","0","0","0","0","0","0","0","0","0","0","0","0","0","0">>,
     fits |-> FALSE],
    [text |-> <<"1","8","4","4","6","7","4","4","0","7","3","7","0","9","5","5","1","6","1","5">>,
     fits |-> FALSE],
    [text |-> <<"1","0","0","0","0","0","0","0","0","0","0","0","0","0","0","0","0","0","0","0">>,
     fits |-> FALSE] }

Paddings == {<<<<>>, <<>>>>, <<<<SP>>, <<TAB>>>>, <<<<TAB, SP>>, <<>>>>}

\* one value under Content-Length: every short value and every long
\* numeral, inside every padding
ValueMaps ==
  {[NewCl EXCEPT !.kind = "value", !.core = core,
                 !.pairs = <<<<HdrContentLength, pad[1] \o core \o pad[2]>>>>]
   : core \in ShortValues \cup {ln.text : ln \in LongNumerals}, pad \in Paddings}

\* spellings of the name, and values, of the maps with one or two names
Spellings ==
  { HdrContentLength, HdrLowerContentLength,
    <<"C","O","N","T","E","N","T","-","L","E","N","G","T","H">>,
    <<"C","o","n","t","e","n","t","-","l","e","n","g","t","h">> }
FewValues == {<<>>, <<"1">>, <<"2">>, <<"x">>}

NameMaps ==
  {[NewCl EXCEPT !.kind = "names", !.pairs = <<<<k, v>>>>]
   : k \in Spellings, v \in FewValues}
  \cup
  {[NewCl EXCEPT !.kind = "names", !.pairs = <<<<k1, v1>>, <<k2, v2>>>>]
   : k1 \in Spellings, k2 \in Spellings, v1 \in FewValues, v2 \in FewValues}

\* the reader under the body: three bytes buffered, the peer still open
BodyReader == [wire |-> <<"x", "y", "z">>, arrived |-> 3, filled |-> 3, cons |-> 0,
               peer |-> "open"]

InitLength ==
  /\ conn = NewConn("deferred close", [rl |-> PlainLine, hs |-> <<>>, body |-> <<>>])
  /\ api = NewApi
  /\ lenv \in {[m EXCEPT !.h = HeaderOf(m.pairs)] : m \in ValueMaps \cup NameMaps}
  /\ conns = NoConns

LengthParse ==
  /\ lenv.stage = "parse"
  /\ LET p == parseContentLength(lenv.h)
     IN  lenv' = [lenv EXCEPT !.n = p.n, !.err = p.err,
                          !.stage = IF p.err # nil THEN "failed" ELSE "read"]
  /\ UNCHANGED <<conn, api, conns>>

LengthRead ==
  /\ lenv.stage = "read"
  /\ \E rd \in LimitedRead(BodyReader, lenv.n) :
       lenv' = [lenv EXCEPT !.data = rd.data, !.rerr = rd.err, !.stage = "done"]
  /\ UNCHANGED <<conn, api, conns>>

NextLength ==
  \/ LengthParse
  \/ LengthRead

SpecLength == InitLength /\ [][NextLength]_vars

(***************************************************************************)
(* SpecFair: one connection with the goroutine of handleConn scheduled     *)
(* whenever it can take a step.  Nothing is assumed of the peer: it may    *)
(* stay silent and keep the stream open for ever.                          *)
(***************************************************************************)
\* header blocks: none, a length the body reaches, the lowercase name, a
\* bad length, a malformed line, two lines
FairBlocks ==
  { <<>>,
    <<KV(HdrContentLength, <<"2">>)>>,
    <<KV(HdrLowerContentLength, <<"1">>)>>,
    <<KV(HdrContentLength, <<"x">>)>>,
    <<[text |-> <<"b","a","d",CR>>, wf |-> FALSE, name |-> <<>>, value |-> <<>>]>>,
    <<KV(<<"A">>, <<"2">>), KV(HdrContentLength, <<"2">>)>> }

FairInputs ==
  {[rl |-> PlainLine, hs |-> hs, body |-> b] : hs \in FairBlocks, b \in Bodies}
  \cup {[rl |-> rl, hs |-> <<>>, body |-> <<>>] : rl \in RequestLines}

InitFair ==
  /\ conn \in {NewConn(rev, in) : rev \in Revisions, in \in FairInputs}
  /\ api = NewApi
  /\ lenv = NewCl
  /\ conns = NoConns

\* a step of handleConn
HandleConn ==
  \/ HandleConnRequestLine
  \/ HandleConnHeader
  \/ HandleConnContentLength
  \/ HandleConnHandler
  \/ HandleConnRespond
  \/ HandleConnWrite

Fairness == WF_vars(HandleConn)

SpecFair == InitFair /\ [][Next]_vars /\ Fairness

(***************************************************************************)
(* SpecClose: handleConn with a handler that reads some of req.Body, calls *)
(* req.Body.Close() and then answers as handlerFn does.  The body's Closer *)
(* is naiveCloser in the first revision, ioutil.NopCloser(r) in the second.*)
(***************************************************************************)
\* a Read of req.Body that returns bytes
handlerRead(c) ==
  IF c.pc # "handlerFn" THEN {}
  ELSE {[c EXCEPT !.cons = rd.cons, !.filled = rd.filled, !.reads = @ + 1,
                  !.body = @ \o rd.data, !.n = @ - Len(rd.data)]
        : rd \in {x \in LimitedRead(c, c.n) : x.err = nil}}

\* req.Body.Close() has returned err: the rest of the handler
closeReturns(c, err) ==
  LET h == handlerFn(c.resp)
  IN  [c EXCEPT !.bodyClosed = @ + 1, !.closeErr = err, !.closeArrived = c.arrived,
                !.resp = h.r, !.pc = IF h.panic THEN "panic" ELSE "respond",
                !.events = @ \o <<"Close body", "handlerFn returns">>]

\* the call of req.Body.Close(): naiveCloser.Close up to its test of
\* Buffered(), or the NopCloser
bodyClose(c) ==
  IF c.pc # "handlerFn" THEN {}
  ELSE IF c.rev = "close at end" /\ Buffered(c) > 0
  THEN {[c EXCEPT !.pc = "Close"]}
  ELSE {closeReturns(c, nil)}

\* naiveCloser.Close in io.Copy(io.Discard, c.r): it discards what the
\* reader has and can get, and returns when the stream has ended
bodyCopy(c) ==
  IF c.pc # "Close" THEN {}
  ELSE IF c.arrived > c.cons
  THEN {[c EXCEPT !.cons = c.arrived, !.filled = c.arrived]}
  ELSE IF c.peer # "open"
  THEN {closeReturns(c, IF c.peer = "EOF" THEN nil ELSE Err(c.peer, <<>>))}
  ELSE {}

CloseInputs ==
  {[rl |-> PlainLine, hs |-> hs, body |-> <<"x","y","z">>]
   : hs \in {<<>>, <<KV(HdrContentLength, <<"2">>)>>, <<KV(HdrLowerContentLength, <<"1">>)>>}}

InitClose ==
  /\ conn \in {NewConn(rev, in) : rev \in Revisions, in \in CloseInputs}
  /\ api = NewApi
  /\ lenv = NewCl
  /\ conns = NoConns

HandlerRead == conn' \in handlerRead(conn) /\ UNCHANGED <<api, lenv, conns>>
BodyClose == conn' \in bodyClose(conn) /\ UNCHANGED <<api, lenv, conns>>
BodyCopy == conn' \in bodyCopy(conn) /\ UNCHANGED <<api, lenv, conns>>

NextClose ==
  \/ PeerSend
  \/ PeerEnd
  \/ PeerCut
  \/ HandleConnRequestLine
  \/ HandleConnHeader
  \/ HandleConnContentLength
  \/ HandlerRead
  \/ BodyClose
  \/ BodyCopy
  \/ HandleConnRespond
  \/ HandleConnWrite

SpecClose == InitClose /\ [][NextClose]_vars

(***************************************************************************)
(* SpecConc: main accepts connections and starts a handleConn goroutine    *)
(* for each; the goroutines and the peers take their steps in any order.   *)
(***************************************************************************)
POST == <<"P","O","S","T">>
HTTP11Line == [text |-> S3(POST, <<"/","b">>, HTTP11), wf |-> TRUE,
               m |-> POST, t |-> <<"/","b">>, p |-> HTTP11]

\* the requests of the connections, in the order in which main accepts them
ConcInputs ==
  << [rl |-> PlainLine, hs |-> <<KV(HdrContentLength, <<"2">>)>>, body |-> <<"x","y","z">>],
     [rl |-> HTTP11Line, hs |-> <<KV(HdrLowerContentLength, <<"1">>)>>, body |-> <<"p","q">>] >>

\* the steps open to the goroutine that serves c
connSteps(c) ==
  handleConnRequestLine(c) \cup handleConnHeader(c) \cup handleConnContentLength(c)
  \cup handleConnHandler(c) \cup handleConnRespond(c) \cup handleConnWrite(c)

\* the steps open to the peer of c
peerSteps(c) == peerSend(c) \cup peerEnd(c) \cup peerCut(c)

\* goroutines that keep the header, the body and the Response in variables
\* of the package
goroutineShared(cs, i) ==
  {[j \in DOMAIN cs |->
      IF j = i THEN d
      ELSE [cs[j] EXCEPT !.header = d.header, !.body = d.body, !.resp = d.resp]]
   : d \in connSteps(cs[i])}

\* go handleConn(conn): a step of the goroutine of connection i
goroutine(cs, i) == {[cs EXCEPT ![i] = d] : d \in connSteps(cs[i])}

InitConc ==
  /\ conn = NewConn("deferred close", [rl |-> PlainLine, hs |-> <<>>, body |-> <<>>])
  /\ api = NewApi
  /\ lenv = NewCl
  /\ conns = NoConns

\* l.Accept() and go handleConn(conn); one process runs one revision
Accept ==
  /\ Len(conns) < Len(ConcInputs)
  /\ \E rev \in (IF conns = <<>> THEN Revisions ELSE {conns[1].rev}) :
       conns' = Append(conns, NewConn(rev, ConcInputs[Len(conns) + 1]))
  /\ UNCHANGED <<conn, api, lenv>>

ConcPeer ==
  /\ \E i \in DOMAIN conns : \E d \in peerSteps(conns[i]) : conns' = [conns EXCEPT ![i] = d]
  /\ UNCHANGED <<conn, api, lenv>>

ConcServe ==
  /\ \E i \in DOMAIN conns : conns' \in goroutine(conns, i)
  /\ UNCHANGED <<conn, api, lenv>>

NextConc ==
  \/ Accept
  \/ ConcPeer
  \/ ConcServe

SpecConc == InitConc /\ [][NextConc]_vars

(***************************************************************************)
(* Definitions the properties share.                                       *)
(***************************************************************************)
Range(s) == {s[i] : i \in 1..Len(s)}
Count(s, x) == Cardinality({i \in 1..Len(s) : s[i] = x})

\* the length of the request line and of the first k header lines of the
\* input, terminators included
RECURSIVE LineEnd(_, _)
LineEnd(in, k) ==
  IF k = 0 THEN Len(in.rl.text) + 1 ELSE LineEnd(in, k - 1) + Len(in.hs[k].text) + 1

\* the length of the input up to the blank line that ends its header block
HeaderEnd(in) == LineEnd(in, Len(in.hs)) + 1

ParseFailures == {"parse request line", "parse MIME header", "parse Content-Length"}

\* handleConn's calls in the order of the program text
Calls == <<"parseRequestLine", "parseMIMEHeader", "parseContentLength", "handlerFn",
           "handlerFn returns", "respond", "Write", "Close">>

(***************************************************************************)
(* C1: when handleConn has returned, the connection has been closed        *)
(* exactly once, whichever way it returned.                                *)
(* The first revision returns from a failed parse without closing.         *)
(***************************************************************************)
C1_ClosedExactlyOnce == conn.pc = "done" => conn.closes = 1

(***************************************************************************)
(* C2: a failed parse stage ends the processing of the connection at once: *)
(* handlerFn is not called and no byte is written; a request whose request *)
(* line or one of whose header lines is malformed never reaches handlerFn. *)
(***************************************************************************)
C2_ParseFailureAborts ==
  /\ conn.failed \in ParseFailures =>
       /\ conn.pc = "done"
       /\ "handlerFn" \notin Range(conn.events)
       /\ "respond" \notin Range(conn.events)
       /\ "Write" \notin Range(conn.events)
       /\ conn.written = <<>>
  /\ (~conn.input.rl.wf \/ \E i \in 1..Len(conn.input.hs) : ~conn.input.hs[i].wf) =>
       /\ "handlerFn" \notin Range(conn.events)
       /\ conn.written = <<>>

C2_Witness ==
  /\ conn.pc = "done"
  /\ conn.failed = "parse Content-Length"
  /\ conn.arrived = Len(conn.wire)
  /\ conn.input.body # <<>>

(***************************************************************************)
(* C3: the calls of one connection happen in the order parse request line, *)
(* parse header, parse Content-Length, handlerFn, its return, respond,     *)
(* Write; none happens twice; once parsing has succeeded handlerFn has     *)
(* been called once, and when handleConn has returned after that, respond  *)
(* and Write have been called once each.                                   *)
(***************************************************************************)
C3_Ordering ==
  /\ \/ IsPrefix(conn.events, Calls)
     \/ \E k \in 0..2 : conn.events = SubSeq(Calls, 1, k) \o <<"Close">>
  /\ "parseContentLength" \in Range(conn.events) =>
       /\ Count(conn.events, "handlerFn") = 1
       /\ conn.failed \notin ParseFailures
  /\ (conn.pc = "done" /\ conn.failed \notin ParseFailures) =>
       /\ Count(conn.events, "handlerFn") = 1
       /\ Count(conn.events, "respond") = 1
       /\ Count(conn.events, "Write") = 1

C3_Witness == conn.pc = "done" /\ conn.events = Calls /\ conn.body # <<>>

(***************************************************************************)
(* C4: for a request line "<M> <T> <P>\n" parseRequestLine returns the     *)
(* method M, the target T and the protocol P.                              *)
(* The protocol it returns still ends with the line terminator.            *)
(***************************************************************************)
C4_RequestLineExact ==
  (conn.input.rl.wf /\ "parseRequestLine" \in Range(conn.events)) =>
    /\ conn.method = conn.input.rl.m
    /\ conn.requestURI = conn.input.rl.t
    /\ conn.proto = conn.input.rl.p

(***************************************************************************)
(* C5: after a header block of "<name>: <value>" lines and a blank line,   *)
(* the header map has exactly the names of the lines, each as it was       *)
(* written, and under each name the trimmed values of its lines in the     *)
(* order of the lines.                                                     *)
(***************************************************************************)
NamesOf(hs) == {hs[i].name : i \in 1..Len(hs)}

RECURSIVE ValuesOf(_, _)
ValuesOf(hs, k) ==
  IF hs = <<>> THEN <<>>
  ELSE (IF Head(hs).name = k THEN <<Head(hs).value>> ELSE <<>>) \o ValuesOf(Tail(hs), k)

C5_HeaderMap ==
  ("parseMIMEHeader" \in Range(conn.events)
     /\ \A i \in 1..Len(conn.input.hs) : conn.input.hs[i].wf) =>
    /\ DOMAIN conn.header = NamesOf(conn.input.hs)
    /\ \A k \in NamesOf(conn.input.hs) : conn.header[k] = ValuesOf(conn.input.hs, k)

C5_Witness ==
  /\ "parseMIMEHeader" \in Range(conn.events)
  /\ {<<"a">>, <<"A">>} \subseteq DOMAIN conn.header

(***************************************************************************)
(* C6: with a content length n >= 0 the body read by the handler is a      *)
(* prefix of the bytes after the blank line, never longer than n; the      *)
(* reader never hands out a byte beyond those n; and when n bytes had      *)
(* arrived, the body read is exactly those n bytes, however many follow.   *)
(***************************************************************************)
C6_BoundedBody ==
  ("handlerFn" \in Range(conn.events) /\ conn.length >= 0) =>
    LET start == HeaderEnd(conn.input)
    IN  /\ Len(conn.body) <= conn.length
        /\ conn.body = SubSeq(conn.wire, start + 1, start + Len(conn.body))
        /\ conn.cons = start + Len(conn.body)
        /\ ("handlerFn returns" \in Range(conn.events)
              /\ conn.arrived >= start + conn.length) =>
             /\ conn.body = SubSeq(conn.wire, start + 1, start + conn.length)
             /\ conn.bodyErr = nil

C6_Witness ==
  /\ "handlerFn returns" \in Range(conn.events)
  /\ conn.length = 2
  /\ conn.body = <<"x", "y">>
  /\ conn.arrived = Len(conn.wire)
  /\ Len(conn.wire) > conn.cons

(***************************************************************************)
(* C7: when the header map has no value for the content length (none under *)
(* Content-Length or content-length, or an empty one), the length is -1,   *)
(* parsing does not fail, and the body ends at its first Read without a    *)
(* byte, whatever has arrived after the header block.                      *)
(***************************************************************************)
FirstValue(h, k) == IF k \in DOMAIN h /\ Len(h[k]) > 0 THEN h[k][1] ELSE <<>>

\* only spaces and tabs
Blank(v) == \A i \in 1..Len(v) : v[i] \in {SP, TAB}

NoLengthValue(h) ==
  /\ Blank(FirstValue(h, HdrContentLength))
  /\ FirstValue(h, HdrContentLength) = <<>> => Blank(FirstValue(h, HdrLowerContentLength))

C7_NoLengthEmptyBody ==
  (conn.pc \notin {"parseRequestLine", "parseMIMEHeader", "parseContentLength"}
     /\ "parseMIMEHeader" \in Range(conn.events)
     /\ NoLengthValue(conn.header)) =>
    /\ conn.failed \notin ParseFailures
    /\ conn.length = -1
    /\ conn.body = <<>>
    /\ conn.cons = HeaderEnd(conn.input)
    /\ "handlerFn returns" \in Range(conn.events) => (conn.reads = 1 /\ conn.bodyErr = nil)

C7_Witness ==
  /\ "handlerFn returns" \in Range(conn.events)
  /\ conn.length = -1
  /\ conn.reads = 1
  /\ conn.input.body # <<>>
  /\ conn.filled = Len(conn.wire)
  /\ HdrContentLength \in DOMAIN conn.header


(***************************************************************************)
(* C9 as stated: parseRequestLine fails with the "invalid request line"    *)
(* error and returns no method, target or protocol, when the first line    *)
(* lacks one of its two spaces and also when its read fails.               *)
(* A failed read returns the error of the read instead.                    *)
(***************************************************************************)
RequestLineUnread == conn.arrived < LineEnd(conn.input, 0)

NoRequestLine ==
  /\ conn.pc = "done"
  /\ conn.failed = "parse request line"
  /\ "parseRequestLine" \notin Range(conn.events)
  /\ conn.method = <<>> /\ conn.requestURI = <<>> /\ conn.proto = <<>>

C9_MalformedRequestLine ==
  (conn.pc # "parseRequestLine" /\ (~conn.input.rl.wf \/ RequestLineUnread)) =>
    (NoRequestLine /\ conn.err = ErrInvalidRequestLine)

(***************************************************************************)
(* C9 amended: parseRequestLine fails and returns no method, target or     *)
(* protocol, when the first line lacks one of its two spaces, with the     *)
(* "invalid request line" error, and when its read fails (also at the end  *)
(* of the stream before a line terminator), with the error of the read.    *)
(***************************************************************************)
C9_RequestLineFails ==
  conn.pc # "parseRequestLine" =>
    /\ RequestLineUnread =>
         (NoRequestLine /\ conn.err = Err(conn.peer, <<>>) /\ conn.peer \in {"EOF", "read"})
    /\ (~RequestLineUnread /\ ~conn.input.rl.wf) =>
         (NoRequestLine /\ conn.err = ErrInvalidRequestLine)

C9_Witness ==
  /\ conn.pc = "done"
  /\ conn.failed = "parse request line"
  /\ conn.err = EOF
  /\ conn.arrived > 0

(***************************************************************************)
(* C10: at the first line of the header block without a colon              *)
(* parseMIMEHeader fails with the "invalid header" error that carries the  *)
(* trimmed line; it has read nothing after that line, kept only the lines  *)
(* before it, and handleConn returns without calling handlerFn or writing. *)
(***************************************************************************)
BadLine == <<"b", "a", "d">>

C10_MalformedHeaderLine ==
  \A k \in 1..Len(conn.input.hs) :
    (/\ ~conn.input.hs[k].wf
     /\ \A j \in 1..(k - 1) : conn.input.hs[j].wf
     /\ conn.pc \notin {"parseRequestLine", "parseMIMEHeader"}
     /\ conn.arrived >= LineEnd(conn.input, k)) =>
      /\ conn.pc = "done"
      /\ conn.failed = "parse MIME header"
      /\ conn.err = ErrInvalidHeader(BadLine)
      /\ conn.cons = LineEnd(conn.input, k)
      /\ DOMAIN conn.header = NamesOf(SubSeq(conn.input.hs, 1, k - 1))
      /\ "handlerFn" \notin Range(conn.events)
      /\ conn.written = <<>>

C10_Witness ==
  /\ conn.pc = "done"
  /\ conn.err = ErrInvalidHeader(BadLine)
  /\ Len(conn.input.hs) = 2
  /\ ~conn.input.hs[1].wf
  /\ conn.input.hs[2].wf
  /\ conn.arrived = Len(conn.wire)


(***************************************************************************)
(* C8: respond returns the line "HTTP/1.1 <status> OK", one line           *)
(* "<name>: <value>" for every WriteHeader call, the values of one name in *)
(* the order of their calls, then the line "Content-Length: <len(data)>"   *)
(* as the last header line, also when the handler wrote a Content-Length   *)
(* of its own, then an empty line, then the data as written; every line    *)
(* ends with one "\n".  Status 200, Content-Type: text/plain and the data  *)
(* "hello world" give the bytes of the example.                            *)
(***************************************************************************)
\* "HTTP/1.1 200 OK\nContent-Type: text/plain\nContent-Length: 11\n\nhello world"
ExampleBytes ==
  <<"H", "T", "T", "P", "/", "1", ".", "1", SP, "2", "0", "0",
     SP, "O", "K", LF, "C", "o", "n", "t", "e", "n", "t", "-",
     "T", "y", "p", "e", COLON, SP, "t", "e", "x", "t", "/", "p",
     "l", "a", "i", "n", LF, "C", "o", "n", "t", "e", "n", "t",
     "-", "L", "e", "n", "g", "t", "h", COLON, SP, "1", "1", LF,
     LF, "h", "e", "l", "l", "o", SP, "w", "o", "r", "l", "d">>

RECURSIVE Split(_, _)
\* the pieces of s between the occurrences of ch
Split(s, ch) ==
  IF Index(s, ch) = 0 THEN <<s>>
  ELSE <<SubSeq(s, 1, Index(s, ch) - 1)>> \o Split(SubSeq(s, Index(s, ch) + 1, Len(s)), ch)

RECURSIVE Filter(_, _)
\* the lines of ls that begin with p
Filter(ls, p) ==
  IF ls = <<>> THEN <<>>
  ELSE (IF IsPrefix(p, Head(ls)) THEN <<Head(ls)>> ELSE <<>>) \o Filter(Tail(ls), p)

RECURSIVE CallLines(_, _)
\* the lines "<name>: <value>" of the calls cs for the name f, in call order
CallLines(cs, f) ==
  IF cs = <<>> THEN <<>>
  ELSE (IF Head(cs)[1] = f THEN <<f \o <<COLON, SP>> \o Head(cs)[2]>> ELSE <<>>)
       \o CallLines(Tail(cs), f)

\* the first i with an empty line after the line that ends at o[i]
BlankAt(o) ==
  CHOOSE i \in 1..Len(o) :
    /\ i < Len(o) /\ o[i] = LF /\ o[i + 1] = LF
    /\ \A j \in 1..(i - 1) : ~(o[j] = LF /\ o[j + 1] = LF)

C8_Rendering ==
  api.rendered =>
    /\ \E i \in 1..(Len(api.out) - 1) : api.out[i] = LF /\ api.out[i + 1] = LF
    /\ LET i == BlankAt(api.out)
           lines == Split(SubSeq(api.out, 1, i - 1), LF)
           mid == SubSeq(lines, 2, Len(lines) - 1)
       IN  /\ Len(lines) = Len(api.calls) + 2
           /\ lines[1] = HTTP11 \o <<SP>> \o Itoa(api.resp.status) \o <<SP>> \o OK
           /\ lines[Len(lines)] =
                HdrContentLength \o <<COLON, SP>> \o Itoa(Len(api.resp.data))
           /\ \A f \in Fields : Filter(mid, f \o <<COLON, SP>>) = CallLines(api.calls, f)
           /\ SubSeq(api.out, i + 2, Len(api.out)) = api.resp.data
    /\ (/\ api.resp.status = 200
        /\ api.calls = <<<<ContentType, TextPlain>>>>
        /\ api.resp.data = HelloWorld) => api.out = ExampleBytes

C8_Witness ==
  /\ api.rendered
  /\ Len(api.calls) = 2
  /\ api.calls[1][1] = HdrContentLength
  /\ api.calls[2][1] = ContentType
  /\ api.resp.status = 200
  /\ api.resp.data = HelloWorld


(***************************************************************************)
(* C11: parseContentLength returns n for a value that, trimmed, is a       *)
(* decimal numeral of an n from 0 to 1<<63 - 1; it fails with the "bad     *)
(* Content-Length" error, which carries the trimmed value, for every other *)
(* non-empty value; the only negative length it returns is -1, for an      *)
(* empty value.                                                            *)
(***************************************************************************)
AllDigits(v) == \A i \in 1..Len(v) : v[i] \in {"0", "1", "9"}

\* v is the numeral of n, with or without leading zeros
NumeralOf(v, n) ==
  \E k \in 0..(Len(v) - 1) :
    /\ \A j \in 1..k : v[j] = "0"
    /\ SubSeq(v, k + 1, Len(v)) = Itoa(n)

C11_ContentLengthValue ==
  (lenv.kind = "value" /\ lenv.stage # "parse") =>
    /\ lenv.core = <<>> => (lenv.err = nil /\ lenv.n = -1)
    /\ (lenv.core # <<>> /\ Len(lenv.core) <= MaxValueLen) =>
         IF AllDigits(lenv.core)
         THEN lenv.err = nil /\ lenv.n >= 0 /\ NumeralOf(lenv.core, lenv.n)
         ELSE lenv.err = ErrBadContentLength(lenv.core)
    /\ \A ln \in LongNumerals : lenv.core = ln.text =>
         IF ln.fits THEN lenv.err = nil /\ lenv.n >= 0
         ELSE lenv.err = ErrBadContentLength(lenv.core)
    /\ lenv.n < 0 => (lenv.n = -1 /\ lenv.core = <<>>)

C11_Witness ==
  /\ lenv.kind = "value"
  /\ lenv.stage = "failed"
  /\ lenv.core = <<"9","2","2","3","3","7","2","0","3","6","8","5","4","7","7","5","8","0","8">>
  /\ Len(lenv.pairs[1][2]) > Len(lenv.core)


(***************************************************************************)
(* C12: WriteStatus(code) stores the code as the status when               *)
(* 100 <= code <= 999 and changes nothing else; for any other code it      *)
(* panics and leaves the status, the headers and the data as they were.    *)
(***************************************************************************)
C12_WriteStatus ==
  [][(api'.op = "WriteStatus" /\ api' # api) =>
       IF 100 <= api'.code /\ api'.code <= 999
       THEN /\ api'.resp = [api.resp EXCEPT !.status = api'.code]
            /\ api'.panics = api.panics
       ELSE /\ api'.resp = api.resp
            /\ api'.panics = api.panics + 1]_vars

C12_Witness ==
  /\ api.op = "WriteStatus"
  /\ api.code = 1000
  /\ api.panics = 1
  /\ api.resp.status = 100
  /\ api.resp.data # <<>>
  /\ api.calls # <<>>


(***************************************************************************)
(* C13: under every interleaving of two handleConn goroutines, what a      *)
(* connection has parsed and read comes from its own stream, what it       *)
(* renders and writes from its own Response, and a step of one goroutine   *)
(* or peer leaves every other connection as it was.                        *)
(***************************************************************************)
OwnRequest(c) ==
  /\ "parseRequestLine" \in Range(c.events) =>
       /\ c.method = c.input.rl.m
       /\ c.requestURI = c.input.rl.t
       /\ IsPrefix(c.input.rl.p, c.proto)
  /\ DOMAIN c.header \subseteq NamesOf(c.input.hs)
  /\ \A k \in DOMAIN c.header : IsPrefix(c.header[k], ValuesOf(c.input.hs, k))
  /\ IsPrefix(c.body, c.input.body)
  /\ "respond" \in Range(c.events) => c.out \in respond(c.resp)
  /\ IsPrefix(c.written, c.out)

C13_Isolation ==
  /\ [](\A i \in DOMAIN conns : OwnRequest(conns[i]))
  /\ [][\A i \in DOMAIN conns : \A j \in DOMAIN conns :
          (conns'[i] # conns[i] /\ j # i) => conns'[j] = conns[j]]_vars

C13_Witness ==
  /\ Len(conns) = 2
  /\ conns[1].pc = "handlerFn" /\ conns[1].body = <<"x">>
  /\ conns[2].pc = "handlerFn" /\ conns[2].body = <<>> /\ conns[2].arrived = Len(conns[2].wire)
  /\ conns[1].header # conns[2].header


(***************************************************************************)
(* C14: when req.Body.Close() has returned, no unread byte of the body is  *)
(* left on the stream: the reader stands behind the contentLength bytes of *)
(* the body, or behind all that had arrived of them, buffered or not.      *)
(* The NopCloser of the second revision discards nothing, and naiveCloser  *)
(* discards nothing when the reader's buffer is empty.                     *)
(***************************************************************************)
Max(a, b) == IF a > b THEN a ELSE b

BodyEnd(c) == HeaderEnd(c.input) + Max(c.length, 0)

C14_CloseDiscardsBody ==
  conn.bodyClosed > 0 => conn.cons >= Min(BodyEnd(conn), conn.closeArrived)

(***************************************************************************)
(* C18: req.Body.Close() takes no byte of the stream beyond the            *)
(* contentLength bytes of the body and never waits for the peer.           *)
(* naiveCloser copies the whole rest of the stream to io.Discard, up to    *)
(* the end of the stream.                                                  *)
(***************************************************************************)
C18_CloseBounded ==
  /\ (conn.pc = "Close" \/ conn.bodyClosed > 0) => conn.cons <= BodyEnd(conn)
  /\ conn.pc = "Close" => bodyCopy(conn) # {}


(***************************************************************************)
(* C15: parseContentLength takes the first value stored under              *)
(* "Content-Length" and, when that name is absent or its first value is    *)
(* empty, the first value stored under exactly "content-length"; a value   *)
(* under any other casing is not looked at, which gives -1 and a body of   *)
(* zero bytes; a non-empty value under "Content-Length" wins over one      *)
(* under "content-length".                                                 *)
(***************************************************************************)
Present(pairs, k) == \E i \in 1..Len(pairs) : pairs[i][1] = k

\* the value of the first pair of the name k, empty when there is none
PairValue(pairs, k) ==
  IF Present(pairs, k)
  THEN pairs[CHOOSE i \in 1..Len(pairs) :
               /\ pairs[i][1] = k
               /\ \A j \in 1..(i - 1) : pairs[j][1] # k][2]
  ELSE <<>>

\* lenv holds the outcome of resolving the length from the value v
ResolvedFrom(v) ==
  /\ v = <<>> => /\ lenv.err = nil
                 /\ lenv.n = -1
                 /\ lenv.stage = "done" => (lenv.data = <<>> /\ lenv.rerr = EOF)
  /\ v = <<"1">> => /\ lenv.err = nil
                    /\ lenv.n = 1
                    /\ lenv.stage = "done" => lenv.data = <<"x">>
  /\ v = <<"2">> => /\ lenv.err = nil
                    /\ lenv.n = 2
                    /\ lenv.stage = "done" => lenv.data = <<"x", "y">>
  /\ v = <<"x">> => lenv.err = ErrBadContentLength(v)

C15_LengthSource ==
  (lenv.kind = "names" /\ lenv.stage # "parse") =>
    ResolvedFrom(IF PairValue(lenv.pairs, HdrContentLength) # <<>>
                 THEN PairValue(lenv.pairs, HdrContentLength)
                 ELSE PairValue(lenv.pairs, HdrLowerContentLength))

\* the lowercase name is used only when the canonical one is absent
C15_CanonicalWins ==
  (lenv.kind = "names" /\ lenv.stage # "parse") =>
    ResolvedFrom(IF Present(lenv.pairs, HdrContentLength)
                 THEN PairValue(lenv.pairs, HdrContentLength)
                 ELSE PairValue(lenv.pairs, HdrLowerContentLength))

C15_Witness ==
  /\ lenv.kind = "names"
  /\ lenv.stage = "done"
  /\ lenv.pairs = <<<<HdrLowerContentLength, <<"1">>>>, <<HdrContentLength, <<>>>>>>
  /\ lenv.n = 1
  /\ lenv.data = <<"x">>


(***************************************************************************)
(* C16: every Response that respond has rendered carries a status from 100 *)
(* to 999, whatever calls the handler made on it.  respond renders the     *)
(* status as it is, and the zero status of Response{} when the handler     *)
(* never called WriteStatus.                                               *)
(***************************************************************************)
C16_StatusSet ==
  api.rendered => (100 <= api.resp.status /\ api.resp.status <= 999)


(***************************************************************************)
(* C17: when the stream ends or a read fails before the blank line that    *)
(* ends the header block has arrived, also inside a header line, and no    *)
(* line that arrived is malformed, parseMIMEHeader fails with the error of *)
(* the read; handleConn returns without resolving a length from the        *)
(* headers read so far, without calling handlerFn and without writing.     *)
(***************************************************************************)
HeaderBlockOpen ==
  /\ conn.input.rl.wf
  /\ conn.arrived >= LineEnd(conn.input, 0)
  /\ conn.arrived < HeaderEnd(conn.input)
  /\ \A k \in 1..Len(conn.input.hs) :
       conn.arrived >= LineEnd(conn.input, k) => conn.input.hs[k].wf

C17_UnterminatedHeaderBlock ==
  (conn.pc \notin {"parseRequestLine", "parseMIMEHeader"} /\ HeaderBlockOpen) =>
    /\ conn.pc = "done"
    /\ conn.failed = "parse MIME header"
    /\ conn.peer \in {"EOF", "read"}
    /\ conn.err = Err(conn.peer, <<>>)
    /\ "parseContentLength" \notin Range(conn.events)
    /\ "handlerFn" \notin Range(conn.events)
    /\ "respond" \notin Range(conn.events)
    /\ conn.written = <<>>

C17_Witness ==
  /\ HeaderBlockOpen
  /\ conn.pc = "done"
  /\ conn.failed = "parse MIME header"
  /\ conn.err = EOF
  /\ Len(conn.input.hs) = 2
  /\ conn.arrived > LineEnd(conn.input, 1)
  /\ conn.arrived = LineEnd(conn.input, 2) - 1
  /\ DOMAIN conn.header # {}


(***************************************************************************)
(* C19: once the peer has closed its side of the stream, or the request    *)
(* line, the header block with its blank line and the contentLength bytes  *)
(* of the body have arrived, handleConn eventually returns, and it has     *)
(* then written nothing or made its one Write of the one response.         *)
(***************************************************************************)
\* the pairs of a header block whose lines are well formed
PairsOf(hs) == [i \in 1..Len(hs) |-> <<TrimSpace(hs[i].name), TrimSpace(hs[i].value)>>]

\* the body bytes handleConn reads of the request in
NeededBody(in) ==
  IF ~in.rl.wf \/ \E i \in 1..Len(in.hs) : ~in.hs[i].wf THEN 0
  ELSE LET p == parseContentLength(HeaderOf(PairsOf(in.hs)))
       IN  IF p.err # nil THEN 0 ELSE Max(p.n, 0)

RequestComplete == conn.arrived >= HeaderEnd(conn.input) + NeededBody(conn.input)

Returned ==
  /\ conn.pc = "done"
  /\ \/ conn.written = <<>>
     \/ Count(conn.events, "Write") = 1 /\ IsPrefix(conn.written, conn.out)

C19_Returns == (conn.peer # "open" \/ RequestComplete) ~> Returned

C19_Witness ==
  /\ Returned
  /\ conn.peer = "open"
  /\ RequestComplete
  /\ NeededBody(conn.input) = 2
  /\ conn.written # <<>>

====
